---- MODULE Spec2Model ----
(***************************************************************************)
(* AISC 360-16 flexural strength checks of rectangular/square HSS and box  *)
(* sections (Chapter F7) and of round HSS (Chapter F8).                    *)
(*                                                                         *)
(* Four entry points are modelled:                                         *)
(*   AISC_F7_Check(...).calculate_nominal_strength()   geometry-derived    *)
(*   flexural_strength_hss_f7(Fy, E, Ag, ...)          positional inputs   *)
(*   flexural_strength_hss_f7(data)                    dict input          *)
(*   flexural_strength_hss_f8_round(Fy, E, D, t, ...)  round HSS           *)
(*                                                                         *)
(* Python floats are modelled as fixed-point numbers: the integer n stands *)
(* for the real n / Scale.  Products, quotients and square roots are       *)
(* rounded down to the next multiple of 1 / Scale.                         *)
(***************************************************************************)
EXTENDS Integers, Sequences, FiniteSets, TLC

VARIABLES pc, call, ambient, obj, result

vars == <<pc, call, ambient, obj, result>>

----------------------------------------------------------------------------
(* Fixed-point arithmetic                                                  *)

\* Four decimal digits.
Scale == 10 * 10 * 10 * 10

\* The real number n / d.
Dec(n, d) == (n * Scale) \div d

Abs(x) == IF x < 0 THEN -x ELSE x

\* x * y, computed on the integer and fractional parts of each factor so
\* that no partial product leaves the 32-bit range.
Mul(x, y) ==
    LET s  == IF (x < 0) = (y < 0) THEN 1 ELSE -1
        a  == Abs(x)
        b  == Abs(y)
        ah == a \div Scale
        al == a % Scale
        bh == b \div Scale
        bl == b % Scale
    IN  s * (ah * bh * Scale + ah * bl + al * bh + (al * bl) \div Scale)

RECURSIVE Frac(_, _, _)
\* The digits of r / b (0 <= r < b) down to the unit w / 10, by long division.
Frac(r, b, w) ==
    IF w = 1 THEN 0
    ELSE ((r * 10) \div b) * (w \div 10) + Frac((r * 10) % b, b, w \div 10)

\* x / y for y # 0.
Div(x, y) ==
    LET s == IF (x < 0) = (y < 0) THEN 1 ELSE -1
        a == Abs(x)
        b == Abs(y)
    IN  s * ((a \div b) * Scale + Frac(a % b, b, Scale))

RECURSIVE ISqrtIn(_, _, _)
\* The largest r in lo..hi with r * r <= n (lo * lo <= n is given).
ISqrtIn(n, lo, hi) ==
    IF lo >= hi THEN lo
    ELSE LET mid == (lo + hi + 1) \div 2
         IN  IF mid * mid <= n THEN ISqrtIn(n, mid, hi)
                               ELSE ISqrtIn(n, lo, mid - 1)

ISqrt(n) == ISqrtIn(n, 0, 46340)

\* math.sqrt(x) for x >= 0; the larger x is, the fewer digits are kept, so
\* that the radicand stays in the 32-bit range.
Sqrt(x) ==
    IF x < 20 * Scale THEN ISqrt(x * Scale)
    ELSE IF x < 2000 * Scale THEN ISqrt(x * (Scale \div 100)) * 10
    ELSE ISqrt(x) * (Scale \div 100)

Min(x, y) == IF y < x THEN y ELSE x

----------------------------------------------------------------------------
(* Python values                                                           *)

\* None, and a present value v.  A candidate strength is None or Some(v).
None == <<>>
Some(v) == <<v>>
Val(o) == o[1]

\* Strings on which the code calls str.capitalize() are sequences of
\* one-letter strings, so that the conversion is computed letter by letter.
LowerLetters == <<"a","b","c","d","e","f","g","h","i","j","k","l","m",
                  "n","o","p","q","r","s","t","u","v","w","x","y","z">>
UpperLetters == <<"A","B","C","D","E","F","G","H","I","J","K","L","M",
                  "N","O","P","Q","R","S","T","U","V","W","X","Y","Z">>

\* str.upper() and str.lower() on the letters; any other character is kept.
UpperOf == [c \in {LowerLetters[i] : i \in 1..26} |->
               UpperLetters[CHOOSE i \in 1..26 : LowerLetters[i] = c]]
LowerOf == [c \in {UpperLetters[i] : i \in 1..26} |->
               LowerLetters[CHOOSE i \in 1..26 : UpperLetters[i] = c]]

Upper(c) == IF c \in DOMAIN UpperOf THEN UpperOf[c] ELSE c
Lower(c) == IF c \in DOMAIN LowerOf THEN LowerOf[c] ELSE c

\* str.capitalize(): first letter upper case, every other letter lower case.
Capitalize(s) == [i \in 1..Len(s) |-> IF i = 1 THEN Upper(s[i]) ELSE Lower(s[i])]

\* The string literals the code compares labels with.
Lit_Compact    == <<"C","o","m","p","a","c","t">>
Lit_Noncompact == <<"N","o","n","c","o","m","p","a","c","t">>
Lit_NonCompact == <<"N","o","n","C","o","m","p","a","c","t">>
Lit_Slender    == <<"S","l","e","n","d","e","r">>
Lit_major      == <<"m","a","j","o","r">>
Lit_minor      == <<"m","i","n","o","r">>
Lit_Major      == <<"M","a","j","o","r">>
Lit_Minor      == <<"M","i","n","o","r">>

\* min(d, key=d.get) over a dict given as the sequence of its (key, value)
\* items in insertion order: the first key whose value is minimal.
MinKeyLast(items) ==
    LET F[i \in 1..Len(items)] ==
            IF i = 1 THEN 1
            ELSE IF items[i][2] <= items[F[i - 1]][2] THEN i ELSE F[i - 1]
    IN  items[F[Len(items)]][1]

MinKey(items) ==
    LET F[i \in 1..Len(items)] ==
            IF i = 1 THEN 1
            ELSE IF items[i][2] < items[F[i - 1]][2] THEN i ELSE F[i - 1]
    IN  items[F[Len(items)]][1]

\* {k: v for k, v in candidates.items() if v is not None}, values unwrapped.
NotNone(items) ==
    LET keep == SelectSeq(items, LAMBDA it : it[2] # None)
    IN  [i \in 1..Len(keep) |-> <<keep[i][1], Val(keep[i][2])>>]

\* d[k] for a key k of the dict.
Lookup(items, k) == items[CHOOSE i \in 1..Len(items) : items[i][1] = k][2]

\* What an evaluation hands back: a returned value or record, or a raised
\* exception.  Fields a given entry point does not produce stay None / "".
NoResult ==
    [outcome |-> "none", error |-> "", Mn |-> None,
     governing_limit_state |-> "", Mp |-> None,
     Mn_FLB |-> None, Mn_WLB |-> None, Mn_LTB |-> None,
     Mn_yielding |-> None, Mn_local_buckling |-> None, compactness |-> <<>>,
     flange_compactness |-> <<>>, web_compactness |-> <<>>,
     section_type |-> "", bending_axis |-> <<>>, status |-> ""]

Raise(msg) == [NoResult EXCEPT !.outcome = "raise", !.error = msg]

----------------------------------------------------------------------------
(* flexural_strength_hss_f7(data): the dict-input variant                  *)

\* Flange local buckling, F7-2 and F7-3.
DictFLB(data) ==
    LET Fy == data.Fy
        E  == data.E
        S  == data.S
        b  == data.b
        tf == data.tf
        Mp == Mul(Fy, data.Z)
    IN  IF data.flange_compactness = Lit_NonCompact
        THEN Some(Min(Mp - Mul(Mp - Mul(Fy, S),
                               Mul(Mul(Dec(357, 100), Div(b, tf)), Sqrt(Div(Fy, E)))
                               - Dec(4, 1)),
                      Mp))
        ELSE IF data.flange_compactness = Lit_Slender
        THEN LET k  == IF data.section_type = "HSS" THEN Dec(38, 100) ELSE Dec(34, 100)
                 be == Mul(Mul(Mul(Dec(192, 100), tf), Sqrt(Div(E, Fy))),
                           Dec(1, 1) - Div(k, Mul(Div(b, tf), Sqrt(Div(E, Fy)))))
                 Se == Mul(S, Div(Min(be, b), b))
             IN  Some(Mul(Fy, Se))
        ELSE None

\* Web local buckling, F7-6.
DictWLB(data) ==
    LET Fy == data.Fy
        Mp == Mul(Fy, data.Z)
        tw == data.tf
    IN  IF data.web_compactness = Lit_NonCompact
        THEN Some(Min(Mp - Mul(Mp - Mul(Fy, data.S),
                               Mul(Mul(Dec(305, 1000), Div(data.h, tw)),
                                   Sqrt(Div(Fy, data.E)))
                               - Dec(738, 1000)),
                      Mp))
        ELSE None

\* Lateral-torsional buckling, F7-10 and F7-11.
DictLTB(data) ==
    LET Fy == data.Fy
        E  == data.E
        S  == data.S
        ry == data.ry
        Lb == data.Lb
        Cb == data.Cb
        Mp == Mul(Fy, data.Z)
        is_square == Abs(data.b - data.h) < 1
        rootJA == Sqrt(Mul(data.J, data.Ag))
        Lp == Div(Mul(Mul(Mul(Dec(13, 100), E), ry), rootJA), Mp)
        Lr == Div(Mul(Mul(Mul(Dec(2, 1), E), ry), rootJA),
                  Mul(Mul(Dec(7, 10), Fy), S))
    IN  IF ~is_square /\ data.bending_axis = Lit_Major
        THEN IF Lb <= Lp
             THEN Some(Mp)
             ELSE IF Lp < Lb /\ Lb <= Lr
             THEN Some(Min(Mul(Cb, Mp - Mul(Mp - Mul(Mul(Dec(7, 10), Fy), S),
                                            Div(Lb - Lp, Lr - Lp))),
                           Mp))
             ELSE Some(Min(Div(Mul(Mul(Mul(Dec(2, 1), E), Cb), rootJA),
                               Div(Lb, ry)),
                           Mp))
        ELSE None

\* The candidates dict, in insertion order.
DictCandidates(data) ==
    << <<"Yielding", Some(Mul(data.Fy, data.Z))>>,
       <<"Flange Local Buckling", DictFLB(data)>>,
       <<"Web Local Buckling", DictWLB(data)>>,
       <<"Lateral-Torsional Buckling", DictLTB(data)>> >>

\* min(valid, key=valid.get)
DictGoverningLast(valid) == MinKeyLast(valid)

DictGoverning(valid) == MinKey(valid)

F7Dict(data) ==
    LET candidates == DictCandidates(data)
        valid == NotNone(candidates)
        governing_limit_state == DictGoverning(valid)
    IN  [NoResult EXCEPT
            !.outcome = "return",
            !.Mn = Some(Lookup(valid, governing_limit_state)),
            !.governing_limit_state = governing_limit_state,
            !.Mp = Lookup(candidates, "Yielding"),
            !.Mn_FLB = Lookup(candidates, "Flange Local Buckling"),
            !.Mn_WLB = Lookup(candidates, "Web Local Buckling"),
            !.Mn_LTB = Lookup(candidates, "Lateral-Torsional Buckling"),
            !.bending_axis = data.bending_axis,
            !.section_type = data.section_type,
            !.flange_compactness = data.flange_compactness,
            !.web_compactness = data.web_compactness,
            !.status = "PASS"]

----------------------------------------------------------------------------
(* flexural_strength_hss_f7(Fy, E, Ag, Sx, Sy, ry, J, b, tf, h, tw, Lb,    *)
(* Cb, My, Mz): the positional variant.  It reads module globals that are  *)
(* not among its parameters: section, material, method and the two         *)
(* classifiers.  g is what those globals hold, and what the classifiers    *)
(* answer, when the function runs:                                         *)
(*   g.section_type, g.Zx, g.Zy    section.type, section.Zx, section.Zy    *)
(*   g.flange, g.web, g.overall    the labels classify_section returns     *)
(*   g.axis                        classify_bending_axis(...)[0].value     *)
(*   g.method                      method                                  *)

\* S and Z of the bending axis.
PosS(a, g) == IF g.axis = Lit_major THEN a.Sx ELSE a.Sy
PosZ(a, g) == IF g.axis = Lit_major THEN g.Zx ELSE g.Zy

\* Flange local buckling, F7-2 and F7-3.
PosFLB(a, g) ==
    LET Fy == a.Fy
        E  == a.E
        S  == PosS(a, g)
        b  == a.b
        tf == a.tf
        Mp == Mul(Fy, PosZ(a, g))
        flange_class == Capitalize(g.flange)
    IN  IF flange_class = Lit_Noncompact
        THEN Some(Min(Mp - Mul(Mp - Mul(Fy, S),
                               Mul(Mul(Dec(357, 100), Div(b, tf)), Sqrt(Div(Fy, E)))
                               - Dec(4, 1)),
                      Mp))
        ELSE IF flange_class = Lit_Slender
        THEN LET k  == IF g.section_type = "SectionType.HSS"
                       THEN Dec(38, 100) ELSE Dec(34, 100)
                 be == Mul(Mul(Mul(Dec(192, 100), tf), Sqrt(Div(E, Fy))),
                           Dec(1, 1) - Div(k, Mul(Div(b, tf), Sqrt(Div(E, Fy)))))
                 Se == Mul(S, Div(Min(be, b), b))
             IN  Some(Mul(Fy, Se))
        ELSE None

\* Web local buckling, F7-6.
PosWLB(a, g) ==
    LET Fy == a.Fy
        Mp == Mul(Fy, PosZ(a, g))
    IN  IF Capitalize(g.web) = Lit_Noncompact
        THEN Some(Min(Mp - Mul(Mp - Mul(Fy, PosS(a, g)),
                               Mul(Mul(Dec(305, 1000), Div(a.h, a.tw)),
                                   Sqrt(Div(Fy, a.E)))
                               - Dec(738, 1000)),
                      Mp))
        ELSE None

\* Lateral-torsional buckling, F7-10 and F7-11.
PosLTB(a, g) ==
    LET Fy == a.Fy
        E  == a.E
        S  == PosS(a, g)
        ry == a.ry
        Lb == a.Lb
        Cb == a.Cb
        Mp == Mul(Fy, PosZ(a, g))
        is_square == Abs(a.b - a.h) < 1
        rootJA == Sqrt(Mul(a.J, a.Ag))
        Lp == Div(Mul(Mul(Mul(Dec(13, 100), E), ry), rootJA), Mp)
        Lr == Div(Mul(Mul(Mul(Dec(2, 1), E), ry), rootJA),
                  Mul(Mul(Dec(7, 10), Fy), S))
    IN  IF ~is_square /\ g.axis = Lit_major
        THEN IF Lb <= Lp
             THEN Some(Mp)
             ELSE IF Lp < Lb /\ Lb <= Lr
             THEN Some(Min(Mul(Cb, Mp - Mul(Mp - Mul(Mul(Dec(7, 10), Fy), S),
                                            Div(Lb - Lp, Lr - Lp))),
                           Mp))
             ELSE Some(Min(Div(Mul(Mul(Mul(Dec(2, 1), E), Cb), rootJA),
                               Div(Lb, ry)),
                           Mp))
        ELSE None

\* The candidates dict, in insertion order.
PosCandidates(a, g) ==
    << <<"Yielding", Some(Mul(a.Fy, PosZ(a, g)))>>,
       <<"Flange Local Buckling", PosFLB(a, g)>>,
       <<"Web Local Buckling", PosWLB(a, g)>>,
       <<"Lateral-Torsional Buckling", PosLTB(a, g)>> >>

\* min(applicable, key=applicable.get)
PosGoverning(applicable) == MinKey(applicable)

\* The applicability test that opens the function.
PosApplicable(g) == g.section_type = "SectionType.HSS"

F7Positional(a, g) ==
    IF ~PosApplicable(g)
    THEN Raise("Chapter F7 applies only to HSS / BOX sections")
    ELSE LET candidates == PosCandidates(a, g)
             applicable == NotNone(candidates)
             governing_limit_state == PosGoverning(applicable)
         IN  [NoResult EXCEPT
                !.outcome = "return",
                !.Mn = Some(Lookup(applicable, governing_limit_state)),
                !.governing_limit_state = governing_limit_state,
                !.Mp = Lookup(candidates, "Yielding"),
                !.Mn_FLB = Lookup(candidates, "Flange Local Buckling"),
                !.Mn_WLB = Lookup(candidates, "Web Local Buckling"),
                !.Mn_LTB = Lookup(candidates, "Lateral-Torsional Buckling"),
                !.bending_axis = Capitalize(g.axis),
                !.section_type = g.section_type,
                !.flange_compactness = Capitalize(g.flange),
                !.web_compactness = Capitalize(g.web),
                !.status = "PASS"]

----------------------------------------------------------------------------
(* flexural_strength_hss_f8_round(Fy, E, D, t, S, Z, My, Mz): round HSS.   *)
(* It reads the same module globals as the positional F7 variant.          *)

\* The D/t applicability test: true when the function raises.
RoundExceedsStrict(a) == Div(a.D, a.t) > Div(Mul(Dec(45, 100), a.E), a.Fy)

RoundExceeds(a) == Div(a.D, a.t) >= Div(Mul(Dec(45, 100), a.E), a.Fy)

\* Local buckling, F8-2 and F8-3, for a valid overall classification.
RoundLocal(a, g) ==
    LET Dt == Div(a.D, a.t)
        overall_class == Capitalize(g.overall)
    IN  IF overall_class = Lit_Compact THEN Mul(a.Fy, a.Z)
        ELSE IF overall_class = Lit_Noncompact
        THEN Mul(Div(Mul(Dec(21, 1000), a.E), Dt) + a.Fy, a.S)
        ELSE Mul(Div(Mul(Dec(33, 100), a.E), Dt), a.S)

RoundLocalCase(g) ==
    LET overall_class == Capitalize(g.overall)
    IN  IF overall_class = Lit_Compact THEN "Compact (No Local Buckling)"
        ELSE IF overall_class = Lit_Noncompact THEN "Noncompact (F8-2)"
        ELSE "Slender (F8-3)"

\* The label of the governing limit state.
RoundGoverning(a, g) ==
    IF Min(Mul(a.Fy, a.Z), RoundLocal(a, g)) = Mul(a.Fy, a.Z)
    THEN "Yielding"
    ELSE "Local Buckling - " \o RoundLocalCase(g)

\* Mn = min(Mn_yielding, Mn_local)
RoundMnLocalOnly(a, g) == RoundLocal(a, g)

RoundMn(a, g) == Min(Mul(a.Fy, a.Z), RoundLocal(a, g))

F8Round(a, g) ==
    IF g.section_type # "SectionType.HSS"
    THEN Raise("Chapter F8 applies only to ROUND HSS sections")
    ELSE IF RoundExceeds(a)
    THEN Raise("D/t exceeds applicability limit for Chapter F8")
    ELSE IF Capitalize(g.overall) \notin {Lit_Compact, Lit_Noncompact, Lit_Slender}
    THEN Raise("Invalid compactness classification")
    ELSE [NoResult EXCEPT
            !.outcome = "return",
            !.Mn = Some(RoundMn(a, g)),
            !.governing_limit_state = RoundGoverning(a, g),
            !.Mn_yielding = Some(Mul(a.Fy, a.Z)),
            !.Mn_local_buckling = Some(RoundLocal(a, g)),
            !.compactness = Capitalize(g.overall),
            !.bending_axis = Capitalize(g.axis),
            !.section_type = "Round HSS",
            !.status = "PASS"]

----------------------------------------------------------------------------
(* class AISC_F7_Check                                                     *)

\* float('inf'): above every strength the model computes.
Inf == 2147483647

Pow2(x) == Mul(x, x)
Pow3(x) == Mul(Mul(x, x), x)

\* __init__(B, H, t_nom, Fy, Lb, E, Cb): the fields of the new object.
Construct(a) ==
    LET B  == a.B
        H  == a.H
        t  == Mul(Dec(93, 100), a.t_nom)
        Bi == B - Mul(Dec(2, 1), t)
        Hi == H - Mul(Dec(2, 1), t)
        I_outer_x == Div(Mul(B, Pow3(H)), Dec(12, 1))
        I_inner_x == Div(Mul(Bi, Pow3(Hi)), Dec(12, 1))
        Ix == I_outer_x - I_inner_x
        I_outer_y == Div(Mul(H, Pow3(B)), Dec(12, 1))
        I_inner_y == Div(Mul(Hi, Pow3(Bi)), Dec(12, 1))
        Iy == I_outer_y - I_inner_y
        Ag == Mul(B, H) - Mul(Bi, Hi)
        Am == Mul(B - t, H - t)
        Pm == Mul(Dec(2, 1), (B - t) + (H - t))
    IN  [t  |-> t,
         b  |-> B - Mul(Dec(3, 1), t),
         h  |-> H - Mul(Dec(3, 1), t),
         Fy |-> a.Fy,
         E  |-> a.E,
         Lb |-> a.Lb,
         Cb |-> a.Cb,
         Ix |-> Ix,
         Sx |-> Div(Ix, Div(H, Dec(2, 1))),
         Zx |-> Div(Mul(B, Pow2(H)), Dec(4, 1)) - Div(Mul(Bi, Pow2(Hi)), Dec(4, 1)),
         Ag |-> Ag,
         ry |-> Sqrt(Div(Iy, Ag)),
         J  |-> Div(Mul(Mul(Dec(4, 1), Pow2(Am)), t), Pm)]

\* _check_yielding, F7-1.
check_yielding(o) == Mul(o.Fy, o.Zx)

\* _check_flange_local_buckling.
check_flange_local_buckling(o) ==
    LET lambda_f  == Div(o.b, o.t)
        sqrt_E_Fy == Sqrt(Div(o.E, o.Fy))
        lambda_p  == Mul(Dec(112, 100), sqrt_E_Fy)
        lambda_r  == Mul(Dec(140, 100), sqrt_E_Fy)
        Mp        == Mul(o.Fy, o.Zx)
    IN  IF lambda_f <= lambda_p THEN Inf
        ELSE IF lambda_f <= lambda_r
        THEN LET term == Mul(Mul(Dec(357, 100), Div(o.b, o.t)), Sqrt(Div(o.Fy, o.E)))
                         - Dec(4, 1)
             IN  Min(Mp - Mul(Mp - Mul(o.Fy, o.Sx), term), Mp)
        ELSE LET term1 == Mul(Dec(38, 100), Sqrt(Div(o.E, o.Fy)))
                 be == Mul(Mul(Mul(Dec(192, 100), o.t), Sqrt(Div(o.E, o.Fy))),
                           Dec(1, 1) - Div(term1, Div(o.b, o.t)))
                 effective_Sx == Mul(o.Sx, Div(Min(be, o.b), o.b))
             IN  Mul(o.Fy, effective_Sx)

\* _check_web_local_buckling.
check_web_local_buckling(o) ==
    LET lambda_w  == Div(o.h, o.t)
        sqrt_E_Fy == Sqrt(Div(o.E, o.Fy))
        lambda_pw == Mul(Dec(242, 100), sqrt_E_Fy)
        lambda_rw == Mul(Dec(570, 100), sqrt_E_Fy)
        Mp        == Mul(o.Fy, o.Zx)
    IN  IF lambda_w <= lambda_pw THEN Inf
        ELSE IF lambda_w <= lambda_rw
        THEN LET term == Mul(Mul(Dec(305, 1000), Div(o.h, o.t)), Sqrt(Div(o.Fy, o.E)))
                         - Dec(738, 1000)
             IN  Min(Mp - Mul(Mp - Mul(o.Fy, o.Sx), term), Mp)
        ELSE 0

\* _check_lateral_torsional_buckling.  The code writes x * (y / z) for Lr and
\* for the elastic strength; the quotient x / z is taken first here,
\* (x / z) * y, which keeps the digits a fixed-point y / z would drop.
check_lateral_torsional_buckling(o) ==
    LET Mp == Mul(o.Fy, o.Zx)
        rootJA == Sqrt(Mul(o.J, o.Ag))
        Lp == Div(Mul(Mul(Mul(Dec(13, 100), o.E), o.ry), rootJA), Mp)
        Lr == Mul(Div(Mul(Mul(Dec(2, 1), o.E), o.ry),
                      Mul(Mul(Dec(7, 10), o.Fy), o.Sx)),
                  rootJA)
    IN  IF o.Lb <= Lp THEN Inf
        ELSE IF o.Lb <= Lr
        THEN LET term == Div(o.Lb - Lp, Lr - Lp)
             IN  Min(Mul(o.Cb, Mp - Mul(Mp - Mul(Mul(Dec(7, 10), o.Fy), o.Sx), term)),
                     Mp)
        ELSE Min(Mul(Div(Mul(Mul(Dec(2, 1), o.E), o.Cb), Div(o.Lb, o.ry)),
                     rootJA),
                 Mp)

\* calculate_nominal_strength: the lowest of the four limit states.
calculate_nominal_strength_no_yield(o) ==
    Min(Min(check_flange_local_buckling(o), check_web_local_buckling(o)),
        check_lateral_torsional_buckling(o))

calculate_nominal_strength(o) ==
    Min(Min(Min(check_yielding(o), check_flange_local_buckling(o)),
            check_web_local_buckling(o)),
        check_lateral_torsional_buckling(o))

ClassResult(o) ==
    [NoResult EXCEPT !.outcome = "return",
                     !.Mn = Some(calculate_nominal_strength(o))]

----------------------------------------------------------------------------
(* Inputs                                                                  *)

\* Unbraced lengths: 0, LbStep, ..., MaxLbSteps * LbStep.
MaxLbSteps == 3
LbStep == Dec(650, 1)
LbVals == {k * LbStep : k \in 0..MaxLbSteps}

\* Round diameters: DStep, ..., MaxDSteps * DStep.
MaxDSteps == 4
DStep == Dec(9375, 1000)
DVals == {k * DStep : k \in 1..MaxDSteps}

CbVals == {Dec(1, 1), Dec(15, 10)}

\* Steel with E / Fy = 625.
FyVal == Dec(464, 10)
EVal  == Dec(29000, 1)

\* AISC_F7_Check(B, H, t_nom, Fy, Lb, E, Cb): 1/16 in. tubes whose flange
\* and web each range over compact, noncompact and slender.
ClassArgs ==
    [B : {Dec(15, 10), Dec(2, 1), Dec(25, 10), Dec(3, 1)},
     H : {Dec(2, 1), Dec(4, 1), Dec(9, 1)},
     t_nom : {Dec(625, 10000)},
     Fy : {FyVal}, E : {EVal}, Lb : LbVals, Cb : CbVals]

\* Clear width and depth: square, rectangular, rectangular with a wide flange.
Geometries ==
    {[b |-> Dec(1826, 1000), h |-> Dec(1826, 1000)],
     [b |-> Dec(1826, 1000), h |-> Dec(3826, 1000)],
     [b |-> Dec(3, 1),       h |-> Dec(3826, 1000)]}

\* Elastic and plastic modulus: S < Z as for a real section, and S > Z.
Moduli ==
    {[S |-> Dec(734, 1000), Z |-> Dec(895, 1000)],
     [S |-> Dec(895, 1000), Z |-> Dec(734, 1000)]}

\* The data dict of the dict-input variant.
DictArgs ==
    {[method |-> "LRFD", Fy |-> FyVal, E |-> EVal,
      Ag |-> Dec(683, 1000), Z |-> m.Z, S |-> m.S,
      ry |-> Dec(858, 1000), J |-> Dec(1155, 1000),
      b |-> geo.b, tf |-> Dec(581, 10000), h |-> geo.h,
      Lb |-> Lb, Cb |-> Cb,
      section_type |-> st, bending_axis |-> ax,
      flange_compactness |-> fc, web_compactness |-> wc] :
        m \in Moduli, geo \in Geometries, Lb \in LbVals, Cb \in CbVals,
        st \in {"HSS", "BOX"}, ax \in {Lit_Major, Lit_Minor},
        fc \in {Lit_Compact, Lit_Noncompact, Lit_NonCompact, Lit_Slender},
        wc \in {Lit_Compact, Lit_Noncompact, Lit_NonCompact, Lit_Slender}}

\* The arguments of the positional variant.
PosArgs ==
    {[Fy |-> FyVal, E |-> EVal, Ag |-> Dec(683, 1000),
      Sx |-> Dec(734, 1000), Sy |-> Dec(502, 1000),
      ry |-> Dec(858, 1000), J |-> Dec(1155, 1000),
      b |-> geo.b, tf |-> Dec(581, 10000), h |-> geo.h, tw |-> Dec(581, 10000),
      Lb |-> Lb, Cb |-> Cb, My |-> Dec(10, 1), Mz |-> 0] :
        geo \in Geometries, Lb \in LbVals, Cb \in CbVals}

\* What the module globals hold when the positional variant reads them.
PosGlobals ==
    [section_type : {"SectionType.HSS", "SectionType.BOX"},
     Zx : {Dec(895, 1000), Dec(7, 10)},
     Zy : {Dec(553, 1000)},
     flange : {<<"c","o","m","p","a","c","t">>, Lit_Noncompact, Lit_NonCompact,
               <<"s","l","e","n","d","e","r">>},
     web : {<<"c","o","m","p","a","c","t">>,
            <<"n","o","n","c","o","m","p","a","c","t">>,
            <<"s","l","e","n","d","e","r">>},
     axis : {Lit_major, Lit_minor},
     method : {"LRFD"}]

\* The arguments of the round variant: t = 0.1 in., D / t = 93.75, 187.5, ...
RoundArgs ==
    {[Fy |-> FyVal, E |-> EVal, D |-> D, t |-> Dec(1, 10),
      S |-> m.S, Z |-> m.Z, My |-> Dec(10, 1), Mz |-> 0] :
        D \in DVals, m \in {[S |-> Dec(77, 10), Z |-> Dec(98, 10)],
                            [S |-> Dec(98, 10), Z |-> Dec(98, 10)]}}

\* What the module globals hold when the round variant reads them.
RoundGlobals ==
    [section_type : {"SectionType.HSS", "SectionType.BOX"},
     overall : {<<"c","o","m","p","a","c","t">>,
                <<"n","o","n","c","o","m","p","a","c","t">>,
                <<"s","l","e","n","d","e","r">>,
                <<"u","n","k","n","o","w","n">>},
     axis : {Lit_major, Lit_minor},
     method : {"LRFD"}]

----------------------------------------------------------------------------
(* The caller: one evaluation at a time.                                   *)
(*   pc      "idle", "constructed" (an AISC_F7_Check object exists),       *)
(*           "done" (an evaluation has returned or raised)                 *)
(*   call    the entry point and its arguments                             *)
(*   ambient the module globals as the evaluation read them                *)
(*   obj     the AISC_F7_Check object                                      *)
(*   result  what the evaluation returned or raised                        *)

NoCall == [entry |-> "none", args |-> <<>>]
NoAmbient == <<>>
NoObj == <<>>

Init ==
    /\ pc = "idle"
    /\ call = NoCall
    /\ ambient = NoAmbient
    /\ obj = NoObj
    /\ result = NoResult

\* o = AISC_F7_Check(B, H, t_nom, Fy, Lb, E, Cb)
New ==
    /\ pc = "idle"
    /\ \E a \in ClassArgs :
          /\ call' = [entry |-> "AISC_F7_Check", args |-> a]
          /\ obj' = Construct(a)
    /\ pc' = "constructed"
    /\ UNCHANGED <<ambient, result>>

\* o.calculate_nominal_strength()
Calculate ==
    /\ pc = "constructed"
    /\ result' = ClassResult(obj)
    /\ pc' = "done"
    /\ UNCHANGED <<call, ambient, obj>>

\* flexural_strength_hss_f7(data)
CallF7Dict ==
    /\ pc = "idle"
    /\ \E data \in DictArgs :
          /\ call' = [entry |-> "f7_dict", args |-> data]
          /\ result' = F7Dict(data)
    /\ pc' = "done"
    /\ UNCHANGED <<ambient, obj>>

\* flexural_strength_hss_f7(Fy, E, Ag, Sx, Sy, ry, J, b, tf, h, tw, Lb, Cb, My, Mz)
CallF7Positional ==
    /\ pc = "idle"
    /\ \E a \in PosArgs, g \in PosGlobals :
          /\ call' = [entry |-> "f7_positional", args |-> a]
          /\ ambient' = g
          /\ result' = F7Positional(a, g)
    /\ pc' = "done"
    /\ UNCHANGED obj

\* flexural_strength_hss_f8_round(Fy, E, D, t, S, Z, My, Mz)
CallF8Round ==
    /\ pc = "idle"
    /\ \E a \in RoundArgs, g \in RoundGlobals :
          /\ call' = [entry |-> "f8_round", args |-> a]
          /\ ambient' = g
          /\ result' = F8Round(a, g)
    /\ pc' = "done"
    /\ UNCHANGED obj

\* The same entry point is evaluated again with the same arguments (for the
\* class, calculate_nominal_strength on the same object); the module globals
\* may have been rebound since.
Reevaluate ==
    /\ pc = "done"
    /\ \E g \in PosGlobals \cup RoundGlobals \cup {NoAmbient} :
          /\ CASE call.entry = "f7_positional" -> g \in PosGlobals
               [] call.entry = "f8_round" -> g \in RoundGlobals
               [] OTHER -> g = NoAmbient
          /\ ambient' = g
          /\ result' = CASE call.entry = "AISC_F7_Check" -> ClassResult(obj)
                         [] call.entry = "f7_dict" -> F7Dict(call.args)
                         [] call.entry = "f7_positional" -> F7Positional(call.args, g)
                         [] OTHER -> F8Round(call.args, g)
    /\ UNCHANGED <<pc, call, obj>>

\* The caller drops the result (and the object).
Return ==
    /\ pc = "done"
    /\ pc' = "idle"
    /\ call' = NoCall
    /\ ambient' = NoAmbient
    /\ obj' = NoObj
    /\ result' = NoResult

Next ==
    \/ New
    \/ Calculate
    \/ CallF7Dict
    \/ CallF7Positional
    \/ CallF8Round
    \/ Reevaluate
    \/ Return

Spec == Init /\ [][Next]_vars

----------------------------------------------------------------------------
(* Properties                                                              *)

Returned == pc = "done" /\ result.outcome = "return"

IsClass == call.entry = "AISC_F7_Check"
IsDict  == call.entry = "f7_dict"
IsPos   == call.entry = "f7_positional"
IsRound == call.entry = "f8_round"

\* The plastic moment Fy * Z of the evaluation that has just finished.
PlasticMoment ==
    CASE IsClass -> Mul(obj.Fy, obj.Zx)
      [] IsDict  -> Mul(call.args.Fy, call.args.Z)
      [] IsPos   -> Mul(call.args.Fy,
                        IF ambient.axis = Lit_major THEN ambient.Zx ELSE ambient.Zy)
      [] IsRound -> Mul(call.args.Fy, call.args.Z)

\* The candidates of a function-variant result, in the priority order
\* Yielding, FLB, WLB, LTB.
PriorityOrder ==
    <<"Yielding", "Flange Local Buckling", "Web Local Buckling",
      "Lateral-Torsional Buckling">>
ResultCandidates == <<result.Mp, result.Mn_FLB, result.Mn_WLB, result.Mn_LTB>>

\* The candidates of the class, in the same order; Inf is "does not control".
ClassCandidates ==
    <<check_yielding(obj), check_flange_local_buckling(obj),
      check_web_local_buckling(obj), check_lateral_torsional_buckling(obj)>>

\* C1: every evaluation that returns a result returns a governing Mn that is
\* at most the plastic moment Mp = Fy * Z, in all four entry points.
C1_MnAtMostMp ==
    Returned => /\ result.Mn # None
                /\ Val(result.Mn) <= PlasticMoment

\* C1 witnesses: a dict evaluation in which flange, web and lateral-torsional
\* buckling all apply and the governing Mn is below Mp.
C1_Witness ==
    /\ Returned /\ IsDict
    /\ result.Mn_FLB # None /\ result.Mn_WLB # None /\ result.Mn_LTB # None
    /\ call.args.flange_compactness = Lit_Slender
    /\ call.args.Lb = MaxLbSteps * LbStep
    /\ Val(result.Mn) < PlasticMoment

\* The web is slender: by geometry in the class, by label elsewhere.
SlenderWeb ==
    CASE IsClass -> Div(obj.h, obj.t) > Mul(Dec(570, 100), Sqrt(Div(obj.E, obj.Fy)))
      [] IsDict  -> call.args.web_compactness = Lit_Slender
      [] IsPos   -> Capitalize(ambient.web) = Lit_Slender
      [] OTHER   -> FALSE

\* C2: a rectangular section with a slender web ends in an explicit failure;
\* no Mn and no PASS record is returned.
C2_SlenderWebFails ==
    (pc = "done" /\ SlenderWeb) =>
        /\ result.outcome = "raise"
        /\ result.Mn = None
        /\ result.status # "PASS"

\* The D/t limit of Chapter F8, 0.45 * E / Fy.
RoundLimit == Div(Mul(Dec(45, 100), call.args.E), call.args.Fy)
RoundDt == Div(call.args.D, call.args.t)
DtMessage == "D/t exceeds applicability limit for Chapter F8"

\* C3: a round HSS with D/t >= 0.45 * E / Fy raises and returns no record;
\* with D/t below the limit the applicability error is not raised, and a
\* round HSS with a valid overall classification gets its record.
C3_RoundApplicability ==
    (pc = "done" /\ IsRound) =>
        /\ RoundDt >= RoundLimit =>
              /\ result.outcome = "raise"
              /\ result.Mn = None
              /\ result.status # "PASS"
        /\ (RoundDt >= RoundLimit /\ ambient.section_type = "SectionType.HSS") =>
              result.error = DtMessage
        /\ RoundDt < RoundLimit =>
              /\ result.error # DtMessage
              /\ (/\ ambient.section_type = "SectionType.HSS"
                  /\ Capitalize(ambient.overall)
                       \in {Lit_Compact, Lit_Noncompact, Lit_Slender})
                     => result.outcome = "return"

\* C3 witness: D/t exactly at the limit, and the applicability error raised.
C3_Witness ==
    /\ pc = "done" /\ IsRound
    /\ RoundDt = RoundLimit
    /\ result.outcome = "raise"
    /\ result.error = DtMessage

\* The section is square, or bending is about the minor axis.
SquareOrMinor ==
    CASE IsClass -> obj.b = obj.h
      [] IsDict  -> \/ Abs(call.args.b - call.args.h) < 1
                    \/ call.args.bending_axis = Lit_Minor
      [] IsPos   -> \/ Abs(call.args.b - call.args.h) < 1
                    \/ ambient.axis = Lit_minor
      [] OTHER   -> FALSE

\* C4: for a square section or minor-axis bending no lateral-torsional
\* candidate takes part in the governing Mn: the function variants report
\* Mn_LTB as not applicable, and the class returns the minimum of the other
\* three limit states.
C4_NoLTBForSquareOrMinor ==
    (Returned /\ SquareOrMinor) =>
        IF IsClass
        THEN Val(result.Mn) = Min(Min(ClassCandidates[1], ClassCandidates[2]),
                                  ClassCandidates[3])
        ELSE result.Mn_LTB = None

\* C5: every applicable candidate, taken alone, is at most Mp.
C5_EveryCandidateAtMostMp ==
    Returned =>
        CASE IsClass -> \A i \in 1..4 : \/ ClassCandidates[i] = Inf
                                        \/ ClassCandidates[i] <= PlasticMoment
          [] IsRound -> TRUE
          [] OTHER   -> \A i \in 1..4 : \/ ResultCandidates[i] = None
                                        \/ Val(ResultCandidates[i]) <= PlasticMoment

\* The place of a limit state in the priority order.
Priority(label) == CHOOSE i \in 1..4 : PriorityOrder[i] = label

\* C6: when several applicable candidates share the minimum, the governing
\* limit state is the earliest of them in the order Yielding, FLB, WLB, LTB;
\* for a round HSS, local buckling equal to yielding is reported as Yielding.
C6_TieBreakByPriority ==
    Returned =>
        CASE IsDict \/ IsPos ->
                /\ result.governing_limit_state \in {PriorityOrder[i] : i \in 1..4}
                /\ \A i \in 1..4 :
                      (/\ ResultCandidates[i] # None
                       /\ ResultCandidates[i] = result.Mn)
                          => Priority(result.governing_limit_state) <= i
          [] IsRound ->
                result.Mn_local_buckling = result.Mn_yielding
                    => result.governing_limit_state = "Yielding"
          [] OTHER -> TRUE

\* C6 witness: a dict evaluation at Lb <= Lp, where the lateral-torsional
\* candidate equals Mp and ties with Yielding, which is reported.
C6_Witness ==
    /\ Returned /\ IsDict
    /\ result.Mn_LTB = result.Mp
    /\ result.Mn = result.Mp
    /\ result.governing_limit_state = "Yielding"

\* C7: a BOX section with a slender flange is accepted and gets a flange
\* local buckling strength (from k = 0.34), in the function variants.
C7_BoxSlenderFlangeAccepted ==
    /\ (pc = "done" /\ IsDict /\ call.args.section_type = "BOX"
          /\ call.args.flange_compactness = Lit_Slender)
          => result.outcome = "return" /\ result.Mn_FLB # None
    /\ (pc = "done" /\ IsPos /\ ambient.section_type = "SectionType.BOX"
          /\ Capitalize(ambient.flange) = Lit_Slender)
          => result.outcome = "return" /\ result.Mn_FLB # None

\* C8: evaluating the same entry point again with identical arguments gives
\* the identical result, whatever the state outside the arguments is.
C8_SameArgsSameResult ==
    [][(pc = "done" /\ pc' = "done" /\ call' = call) => result' = result]_vars

\* C9: an element classified Noncompact gets its local-buckling candidate, in
\* both direct-input variants.
C9_NoncompactApplies ==
    /\ (Returned /\ IsDict) =>
          /\ call.args.flange_compactness = Lit_Noncompact => result.Mn_FLB # None
          /\ call.args.web_compactness = Lit_Noncompact => result.Mn_WLB # None
          /\ call.args.flange_compactness = Lit_Compact => result.Mn_FLB = None
          /\ call.args.web_compactness = Lit_Compact => result.Mn_WLB = None
    /\ (Returned /\ IsPos) =>
          /\ ambient.flange = Lit_Noncompact => result.Mn_FLB # None
          /\ ambient.web = Lit_Noncompact => result.Mn_WLB # None

\* C10: a successful rectangular evaluation has Yielding among its applicable
\* candidates, names one of them as governing, returns that one's value, and
\* that value is at most every applicable candidate; the not-applicable
\* marker is never the governing Mn.
C10_GoverningIsMinimum ==
    Returned =>
        CASE IsDict \/ IsPos ->
                /\ result.Mp = Some(PlasticMoment)
                /\ result.Mn # None
                /\ \E i \in 1..4 :
                      /\ PriorityOrder[i] = result.governing_limit_state
                      /\ ResultCandidates[i] # None
                      /\ ResultCandidates[i] = result.Mn
                /\ \A i \in 1..4 :
                      \/ ResultCandidates[i] = None
                      \/ Val(result.Mn) <= Val(ResultCandidates[i])
          [] IsClass ->
                /\ ClassCandidates[1] # Inf
                /\ result.Mn # None
                /\ Val(result.Mn) # Inf
                /\ \E i \in 1..4 : ClassCandidates[i] = Val(result.Mn)
                /\ \A i \in 1..4 : Val(result.Mn) <= ClassCandidates[i]
          [] OTHER -> TRUE

\* C10 witness: a class evaluation in which only Yielding applies (compact
\* flange and web, Lb <= Lp): the other three limit states return the
\* not-applicable marker and Mn is the yielding strength.
C10_Witness ==
    /\ Returned /\ IsClass
    /\ ClassCandidates[2] = Inf /\ ClassCandidates[3] = Inf /\ ClassCandidates[4] = Inf
    /\ Val(result.Mn) = ClassCandidates[1]

====
